---- MODULE Spec2Model ----
(***************************************************************************)
(* A model of the trivia REST backend (backend/flaskr/__init__.py).        *)
(*                                                                         *)
(* The state is the two database tables (questions, categories), the id    *)
(* sequence of the questions table, and the last request served together   *)
(* with the response it got; nSeeded, nCreated and nDeleted count the rows *)
(* the run started with, the inserts and the deletes.  Every route handler is one action: it reads  *)
(* its inputs (path parameter, query string, JSON body), queries the       *)
(* tables, possibly writes, and leaves the response it returns.  Requests  *)
(* are served one at a time: after_request ends a request, and only then   *)
(* is the next one taken.                                                  *)
(*                                                                         *)
(* Texts are sequences of one-character strings so that substring and LIKE *)
(* matching are computed, not assumed.  JSON values are tagged records      *)
(* [t, v] so that Python's truthiness, str() and != keep their meaning.    *)
(***************************************************************************)
EXTENDS Integers, Sequences, FiniteSets, TLC

VARIABLES questions, categories, nextId, request, response, nCreated, nDeleted,
          nSeeded

vars == <<questions, categories, nextId, request, response, nCreated, nDeleted,
          nSeeded>>

(***************************************************************************)
(* Program constant and model bounds                                       *)
(***************************************************************************)
QUESTIONS_PER_PAGE == 10

MaxCreates == 1
MaxDeletes == 1

(***************************************************************************)
(* JSON values as Python sees them                                         *)
(***************************************************************************)
NoneV == [t |-> "none", v |-> <<>>]
StrV(s) == [t |-> "str", v |-> s]
IntV(n) == [t |-> "int", v |-> <<n>>]
ListV(l) == [t |-> "list", v |-> l]

\* Python truthiness: None, "", 0 and [] are falsy.
Truthy(x) ==
  CASE x.t = "none" -> FALSE
    [] x.t = "str" -> x.v # <<>>
    [] x.t = "int" -> x.v[1] # 0
    [] x.t = "list" -> x.v # <<>>

\* Python `x != 0`: only the integer 0 equals 0; the string "0" does not.
NotEqualsZero(x) == ~(x.t = "int" /\ x.v[1] = 0)

Digits == <<"0", "1", "2", "3", "4", "5", "6", "7", "8", "9">>

RECURSIVE DecimalOf(_)
DecimalOf(n) ==
  IF n < 10 THEN <<Digits[n + 1]>>
  ELSE DecimalOf(n \div 10) \o <<Digits[(n % 10) + 1]>>

\* Python str(): a string is itself, a non-negative integer its decimal digits.
PyStr(x) == IF x.t = "str" THEN x.v ELSE DecimalOf(x.v[1])

Min2(a, b) == IF a < b THEN a ELSE b
Max2(a, b) == IF a > b THEN a ELSE b

\* Python list slicing seq[start:end] (0-based, end exclusive): a negative
\* index counts from the end, and both indices are clamped to the list.
PySlice(seq, start, end) ==
  LET n == Len(seq)
      s == IF start < 0 THEN Max2(start + n, 0) ELSE Min2(start, n)
      e == IF end < 0 THEN Max2(end + n, 0) ELSE Min2(end, n)
  IN IF s < e THEN SubSeq(seq, s + 1, e) ELSE <<>>

(***************************************************************************)
(* The tables and the queries the handlers issue                           *)
(***************************************************************************)
Ids(rows) == {r.id : r \in rows}

RECURSIVE OrderById(_)
\* Question.query.order_by(Question.id).all()
OrderById(rows) ==
  IF rows = {} THEN <<>>
  ELSE LET first == CHOOSE r \in rows : \A o \in rows : r.id <= o.id
       IN <<first>> \o OrderById(rows \ {first})

\* Question.format(): the dict {id, question, answer, category, difficulty}.
FormatQuestion(q) ==
  [id |-> q.id, question |-> q.question, answer |-> q.answer,
   category |-> q.category, difficulty |-> q.difficulty]

FormatAll(seq) == [i \in 1..Len(seq) |-> FormatQuestion(seq[i])]

\* The id -> type mapping built from Category.query.all().
CategoriesReturned == [i \in {c.id : c \in categories} |->
                         (CHOOSE c \in categories : c.id = i).type]

RECURSIVE LikeMatch(_, _)
\* SQL LIKE: % matches any run of characters, _ any single character.
LikeMatch(text, pattern) ==
  IF pattern = <<>> THEN text = <<>>
  ELSE IF Head(pattern) = "%"
       THEN LikeMatch(text, Tail(pattern))
            \/ (text # <<>> /\ LikeMatch(Tail(text), pattern))
       ELSE /\ text # <<>>
            /\ (Head(pattern) = "_" \/ Head(pattern) = Head(text))
            /\ LikeMatch(Tail(text), Tail(pattern))

\* Column.contains(term) is rendered as  column LIKE '%' || term || '%'.
Contains(text, term) == LikeMatch(text, <<"%">> \o term \o <<"%">>)

\* paginate_questions with the pages counted from 0.
paginate_from_zero(args, selection) ==
  LET page == IF args = <<>> THEN 1 ELSE args[1]
      start == page * QUESTIONS_PER_PAGE
      end == start + QUESTIONS_PER_PAGE
  IN PySlice(FormatAll(selection), start, end)

\* paginate_questions(request, selection); args is the query string's page
\* parameter: <<>> when absent or not an integer (the default 1 is used).
PageNumber(args) == IF args = <<>> THEN 1 ELSE args[1]

paginate_questions(args, selection) ==
  LET page == PageNumber(args)
      start == (page - 1) * QUESTIONS_PER_PAGE
      end == start + QUESTIONS_PER_PAGE
      formatted == FormatAll(selection)
  IN PySlice(formatted, start, end)

(***************************************************************************)
(* The error handlers                                                      *)
(***************************************************************************)
\* abort(code) carries the framework's default description, a string;
\* abort(code, {...}) carries the dict it was given.
DefaultDescription == [kind |-> "str", keys |-> {}, message |-> ""]
MessageDescription(m) == [kind |-> "dict", keys |-> {"message"}, message |-> m]

\* getErrorMessage: error.description["message"]; indexing a string with
\* "message" raises TypeError, which is caught; a dict without the key raises
\* KeyError, which is not.
getErrorMessage(error, default_text) ==
  IF error.description.kind # "dict"
  THEN [raised |-> "", value |-> default_text]
  ELSE IF "message" \in error.description.keys
       THEN [raised |-> "", value |-> error.description.message]
       ELSE [raised |-> "KeyError", value |-> ""]

Envelope(code, message) ==
  [status |-> code, success |-> FALSE, error |-> code, message |-> message]

internal_server_error(error) == Envelope(500, "internal server error")

\* An exception that leaves a view or an error handler is answered by the
\* framework through the 500 handler.
Rendered(code, m) ==
  IF m.raised # "" THEN internal_server_error(m) ELSE Envelope(code, m.value)

bad_request(error) == Rendered(400, getErrorMessage(error, "bad request"))

ressource_not_found(error) ==
  Rendered(404, getErrorMessage(error, "resource not found"))

method_not_allowed(error) == Envelope(405, "method not allowed")

unprocessable(error) == Rendered(422, getErrorMessage(error, "unprocessable"))

\* abort(code, description): the handler registered for the code renders it.
Abort(code, description) ==
  LET error == [code |-> code, description |-> description]
  IN CASE code = 400 -> bad_request(error)
       [] code = 404 -> ressource_not_found(error)
       [] code = 405 -> method_not_allowed(error)
       [] code = 422 -> unprocessable(error)
       [] code = 500 -> internal_server_error(error)

\* An uncaught Python exception in a view.
Crash(exception) == internal_server_error(exception)

(***************************************************************************)
(* Inputs: the requests the model sends                                    *)
(***************************************************************************)
Range(seq) == {seq[i] : i \in 1..Len(seq)}

\* ?page=N of the query string: absent/unparseable, negative, zero, positive.
PageArgs == {<<>>, <<-1>>, <<0>>, <<1>>, <<2>>, <<3>>}

CategoryIds == {0, 1, 2, 3}

DeleteIds == {1, 3, 11, 13, 99}

SearchTerms == {<<"e">>, <<"T">>, <<"t">>, <<"x">>, <<"_">>, <<"t", "e">>}

\* The JSON body of POST /questions: kind "none" is no (or unparseable) JSON,
\* "empty" is {}, "dict" an object whose absent keys read as None.
BodyOfKind(k) ==
  [kind |-> k, searchTerm |-> NoneV, question |-> NoneV, answer |-> NoneV,
   category |-> NoneV, difficulty |-> NoneV]

CreateBodies ==
  [kind : {"dict"},
   searchTerm : {NoneV, StrV(<<>>)},
   question : {NoneV, StrV(<<>>), StrV(<<"t", "e">>)},
   answer : {NoneV, StrV(<<"y">>)},
   category : {NoneV, IntV(0), StrV(<<"1">>), IntV(3)},
   difficulty : {NoneV, IntV(0), IntV(2)}]

SearchBodies ==
  [kind : {"dict"},
   searchTerm : {StrV(term) : term \in SearchTerms},
   question : {NoneV, StrV(<<"t", "e">>)},
   answer : {StrV(<<"y">>)},
   category : {StrV(<<"1">>)},
   difficulty : {IntV(2)}]

QuestionBodies ==
  {BodyOfKind("none"), BodyOfKind("empty")} \cup CreateBodies \cup SearchBodies

\* The JSON body of POST /quizzes.  quiz_category is absent ("none"), {}
\* ("empty"), an object without the key id ("noid"), or an object with id.
QuizCategories ==
  {[kind |-> "none", id |-> NoneV], [kind |-> "empty", id |-> NoneV],
   [kind |-> "noid", id |-> NoneV]}
  \cup [kind : {"dict"},
        id : {IntV(0), StrV(<<"0">>), IntV(1), StrV(<<"1">>), IntV(2), IntV(3)}]

PreviousQuestions ==
  {NoneV, ListV(<<>>), ListV(<<1>>), ListV(<<2>>), ListV(<<1, 2>>),
   ListV(<<2, 13>>)}

QuizBodies ==
  {[kind |-> "none", previous_questions |-> NoneV,
    quiz_category |-> [kind |-> "none", id |-> NoneV]],
   [kind |-> "empty", previous_questions |-> NoneV,
    quiz_category |-> [kind |-> "none", id |-> NoneV]]}
  \cup [kind : {"dict"}, previous_questions : PreviousQuestions,
        quiz_category : QuizCategories]

(***************************************************************************)
(* Initial state: a seeded database, no request served yet                 *)
(***************************************************************************)
SeedTexts == <<<<"T", "e">>, <<"t", "e">>, <<"a", "b">>>>

SeedQuestion(i) ==
  [id |-> i, question |-> SeedTexts[(i % 3) + 1], answer |-> <<"y">>,
   category |-> DecimalOf((i % 2) + 1), difficulty |-> 1]

SeedCategories == {[id |-> 1, type |-> "Science"], [id |-> 2, type |-> "Art"]}

\* The databases a run starts from: an empty one, and the categories seeded
\* with no question, a few questions, or more than one page of them.
Seeds ==
  {[n |-> 0, categories |-> {}], [n |-> 0, categories |-> SeedCategories],
   [n |-> 2, categories |-> SeedCategories],
   [n |-> 12, categories |-> SeedCategories]}

Init ==
  /\ \E seed \in Seeds :
       /\ questions = {SeedQuestion(i) : i \in 1..seed.n}
       /\ nextId = seed.n + 1
       /\ nSeeded = seed.n
       /\ categories = seed.categories
  /\ request = [op |-> "none"]
  /\ response = [status |-> 0]
  /\ nCreated = 0
  /\ nDeleted = 0

(***************************************************************************)
(* The route handlers                                                      *)
(***************************************************************************)
\* No request is being served.
Idle == request.op = "none"

\* GET /categories
get_all_categories ==
  /\ Idle
  /\ request' = [op |-> "get_all_categories"]
  /\ response' =
       IF categories = {} THEN Abort(405, DefaultDescription)
       ELSE [status |-> 200, success |-> TRUE, categories |-> CategoriesReturned]
  /\ UNCHANGED <<questions, categories, nextId, nCreated, nDeleted, nSeeded>>

\* get_questions_for_page without the check of line 73: an empty page is
\* returned like any other.
get_questions_unchecked(args) ==
  LET all_questions == OrderById(questions)
      questions_paginated == paginate_questions(args, all_questions)
  IN /\ Idle
     /\ request' = [op |-> "get_questions_for_page", args |-> args]
     /\ response' = [status |-> 200, success |-> TRUE,
                     questions |-> questions_paginated,
                     total_questions |-> Len(all_questions),
                     categories |-> CategoriesReturned,
                     current_category |-> NoneV]
     /\ UNCHANGED <<questions, categories, nextId, nCreated, nDeleted, nSeeded>>

\* GET /questions?page=N
get_questions_for_page(args) ==
  LET all_questions == OrderById(questions)
      questions_paginated == paginate_questions(args, all_questions)
  IN /\ Idle
     /\ request' = [op |-> "get_questions_for_page", args |-> args]
     /\ response' =
          IF Len(questions_paginated) = 0 THEN Abort(404, DefaultDescription)
          ELSE [status |-> 200, success |-> TRUE,
                questions |-> questions_paginated,
                total_questions |-> Len(all_questions),
                categories |-> CategoriesReturned,
                current_category |-> NoneV]
     /\ UNCHANGED <<questions, categories, nextId, nCreated, nDeleted, nSeeded>>

\* delete_question_by_id without the check of line 101: deleting the missing
\* row raises inside the try block and is answered 422.
delete_question_unchecked(question_id, raises) ==
  LET found == {q \in questions : q.id = question_id}
  IN /\ Idle
     /\ (found # {} /\ ~raises) => nDeleted < MaxDeletes
     /\ request' = [op |-> "delete_question_by_id",
                    question_id |-> question_id, raises |-> raises]
     /\ IF found = {} \/ raises
        THEN /\ response' = Abort(422, DefaultDescription)
             /\ UNCHANGED <<questions, nDeleted>>
        ELSE /\ questions' = questions \ found
             /\ nDeleted' = nDeleted + 1
             /\ response' = [status |-> 200, success |-> TRUE,
                             deleted |-> question_id]
     /\ UNCHANGED <<categories, nextId, nCreated, nSeeded>>

\* delete_question_by_id where the row is already gone when the exception
\* is raised: the 422 is answered for a delete that took place.
delete_question_then_fail(question_id, raises) ==
  LET found == {q \in questions : q.id = question_id}
  IN /\ Idle
     /\ (found # {} /\ ~raises) => nDeleted < MaxDeletes
     /\ request' = [op |-> "delete_question_by_id",
                    question_id |-> question_id, raises |-> raises]
     /\ IF found = {}
        THEN /\ response' = Abort(404, DefaultDescription)
             /\ UNCHANGED <<questions, nDeleted>>
        ELSE IF raises
             THEN /\ response' = Abort(422, DefaultDescription)
                  /\ questions' = questions \ found
                  /\ UNCHANGED nDeleted
             ELSE /\ questions' = questions \ found
                  /\ nDeleted' = nDeleted + 1
                  /\ response' = [status |-> 200, success |-> TRUE,
                                  deleted |-> question_id]
     /\ UNCHANGED <<categories, nextId, nCreated, nSeeded>>

\* DELETE /questions/<question_id>; raises: question.delete() raised.
delete_question_by_id(question_id, raises) ==
  LET found == {q \in questions : q.id = question_id}
  IN /\ Idle
     /\ (found # {} /\ ~raises) => nDeleted < MaxDeletes
     /\ request' = [op |-> "delete_question_by_id",
                    question_id |-> question_id, raises |-> raises]
     /\ IF found = {}
        THEN /\ response' = Abort(404, DefaultDescription)
             /\ UNCHANGED <<questions, nDeleted>>
        ELSE IF raises
             THEN /\ response' = Abort(422, DefaultDescription)
                  /\ UNCHANGED <<questions, nDeleted>>
             ELSE /\ questions' = questions \ found
                  /\ nDeleted' = nDeleted + 1
                  /\ response' = [status |-> 200, success |-> TRUE,
                                  deleted |-> question_id]
     /\ UNCHANGED <<categories, nextId, nCreated, nSeeded>>

\* NewQuestion with the answer passed where the category belongs.
NewQuestionMixedUp(id, body) ==
  [id |-> id, question |-> PyStr(body.question), answer |-> PyStr(body.answer),
   category |-> PyStr(body.answer), difficulty |-> body.difficulty.v[1]]

\* The row Question(question=..., answer=..., category=..., difficulty=...)
\* becomes once inserted: the text columns hold the values as strings.
NewQuestion(id, body) ==
  [id |-> id, question |-> PyStr(body.question), answer |-> PyStr(body.answer),
   category |-> PyStr(body.category), difficulty |-> body.difficulty.v[1]]

\* MissingField with the answer checked only after the category.
MissingFieldReordered(body) ==
  IF ~Truthy(body.question) THEN "Question is a mandatory field"
  ELSE IF ~Truthy(body.category) THEN "Category is a mandatory field"
  ELSE IF ~Truthy(body.answer) THEN "Answer is a mandatory field"
  ELSE IF ~Truthy(body.difficulty) THEN "Difficulty is a mandatory field"
  ELSE ""

\* The checks of lines 164-174, in their order: the message of the first
\* field that is missing or falsy, "" when all four are given.
MissingField(body) ==
  IF ~Truthy(body.question) THEN "Question is a mandatory field"
  ELSE IF ~Truthy(body.answer) THEN "Answer is a mandatory field"
  ELSE IF ~Truthy(body.category) THEN "Category is a mandatory field"
  ELSE IF ~Truthy(body.difficulty) THEN "Difficulty is a mandatory field"
  ELSE ""

\* The request reaches the insert: a body, no search term, no field missing.
IsCreate(body) ==
  /\ body.kind = "dict"
  /\ ~Truthy(body.searchTerm)
  /\ MissingField(body) = ""

\* POST /questions; raises: question.insert() raised.
create_or_search_questions(body, args, raises) ==
  LET search_term == body.searchTerm
      found == {q \in questions : Contains(q.question, search_term.v)}
      inserted == questions \cup {NewQuestion(nextId, body)}
      selections == OrderById(inserted)
  IN /\ Idle
     /\ (IsCreate(body) /\ ~raises) => nCreated < MaxCreates
     /\ request' = [op |-> "create_or_search_questions", body |-> body,
                    args |-> args, raises |-> raises]
     /\ IF body.kind # "dict"
        THEN /\ response' = Abort(400, DefaultDescription)
             /\ UNCHANGED <<questions, nextId, nCreated>>
        ELSE IF Truthy(search_term)
        THEN /\ response' =
                  IF found = {} THEN Abort(404, DefaultDescription)
                  ELSE [status |-> 200, success |-> TRUE,
                        questions |-> FormatAll(OrderById(found)),
                        total_questions |-> Len(OrderById(questions)),
                        current_category |-> CategoriesReturned]
             /\ UNCHANGED <<questions, nextId, nCreated>>
        ELSE IF MissingField(body) # ""
        THEN /\ response' = Abort(400, MessageDescription(MissingField(body)))
             /\ UNCHANGED <<questions, nextId, nCreated>>
        ELSE IF raises
        THEN /\ response' = Abort(422, DefaultDescription)
             /\ UNCHANGED <<questions, nextId, nCreated>>
        ELSE /\ questions' = inserted
             /\ nextId' = nextId + 1
             /\ nCreated' = nCreated + 1
             /\ response' = [status |-> 200, success |-> TRUE,
                             created |-> nextId,
                             questions |-> paginate_questions(args, selections),
                             total_questions |-> Len(selections)]
     /\ UNCHANGED <<categories, nDeleted, nSeeded>>

\* CategorySelection without the sentinel: 0 is filtered like any other id.
CategorySelectionNoSentinel(category_id) ==
  OrderById({q \in questions : q.category = DecimalOf(category_id)})

\* The query of lines 214-220: every question for the sentinel 0, else the
\* questions whose category column equals the id.
CategorySelection(category_id) ==
  IF category_id # 0
  THEN OrderById({q \in questions : q.category = DecimalOf(category_id)})
  ELSE OrderById(questions)

\* GET /categories/<category_id>/questions?page=N
get_questions_from_categories(category_id, args) ==
  LET selection == CategorySelection(category_id)
      questions_paginated == paginate_questions(args, selection)
  IN /\ Idle
     /\ request' = [op |-> "get_questions_from_categories",
                    category_id |-> category_id, args |-> args]
     /\ response' =
          IF selection = <<>> THEN Abort(400, DefaultDescription)
          ELSE IF questions_paginated = <<>>
          THEN Abort(404, MessageDescription("No questions in selected page."))
          ELSE [status |-> 200, success |-> TRUE,
                questions |-> questions_paginated,
                total_questions |-> Len(selection),
                current_category |-> category_id]
     /\ UNCHANGED <<questions, categories, nextId, nCreated, nDeleted, nSeeded>>

\* `current_category and current_category['id'] != 0`
HasCategory(current_category) ==
  current_category.kind = "dict" /\ NotEqualsZero(current_category.id)

\* QuizCandidates with the previous questions left unfiltered.
QuizCandidatesUnfiltered(body) ==
  IF HasCategory(body.quiz_category)
  THEN {q \in questions : q.category = PyStr(body.quiz_category.id)}
  ELSE questions

\* questions_raw of play_quiz: the four queries of lines 265-285.
QuizCandidates(body) ==
  LET previous_questions == body.previous_questions
      current_category == body.quiz_category
  IN IF ~Truthy(previous_questions)
     THEN IF HasCategory(current_category)
          THEN {q \in questions : q.category = PyStr(current_category.id)}
          ELSE questions
     ELSE IF HasCategory(current_category)
          THEN {q \in questions :
                  /\ q.category = PyStr(current_category.id)
                  /\ q.id \notin Range(previous_questions.v)}
          ELSE {q \in questions : q.id \notin Range(previous_questions.v)}

\* POST /quizzes.  random.randint(0, len - 1) is any index of the list, and
\* raises ValueError when the list is empty.
play_quiz(body) ==
  LET questions_formatted == FormatAll(OrderById(QuizCandidates(body)))
  IN /\ Idle
     /\ request' = [op |-> "play_quiz", body |-> body]
     /\ IF body.kind # "dict"
        THEN response' = Abort(400, MessageDescription(
               "Please provide a JSON body with previous question Ids and optional category."))
        ELSE IF body.quiz_category.kind = "noid"
        THEN response' = Crash("KeyError")
        ELSE IF Len(questions_formatted) = 0
        THEN response' = Crash("ValueError")
        ELSE \E index \in 0..(Len(questions_formatted) - 1) :
               response' = [status |-> 200, success |-> TRUE,
                            question |-> questions_formatted[index + 1]]
     /\ UNCHANGED <<questions, categories, nextId, nCreated, nDeleted, nSeeded>>

\* A request no route serves: an unknown path is answered 404, a known path
\* with a method the route does not list 405.
unrouted(why) ==
  /\ Idle
  /\ request' = [op |-> "unrouted", why |-> why]
  /\ response' = IF why = "no_route" THEN Abort(404, DefaultDescription)
                 ELSE Abort(405, DefaultDescription)
  /\ UNCHANGED <<questions, categories, nextId, nCreated, nDeleted, nSeeded>>

\* after_request: the response leaves with the CORS headers added, which
\* ends the request.
after_request ==
  /\ ~Idle
  /\ request' = [op |-> "none"]
  /\ response' = [status |-> 0]
  /\ UNCHANGED <<questions, categories, nextId, nCreated, nDeleted, nSeeded>>

Next ==
  \/ get_all_categories
  \/ \E args \in PageArgs : get_questions_for_page(args)
  \/ \E question_id \in DeleteIds, raises \in BOOLEAN :
       delete_question_by_id(question_id, raises)
  \/ \E body \in QuestionBodies, args \in {<<>>, <<2>>}, raises \in BOOLEAN :
       /\ IsCreate(body) \/ (args = <<>> /\ ~raises)
       /\ create_or_search_questions(body, args, raises)
  \/ \E category_id \in CategoryIds, args \in PageArgs :
       get_questions_from_categories(category_id, args)
  \/ \E body \in QuizBodies : play_quiz(body)
  \/ \E why \in {"no_route", "wrong_method"} : unrouted(why)
  \/ after_request

Spec == Init /\ [][Next]_vars

(***************************************************************************)
(* Properties of POST /quizzes                                             *)
(***************************************************************************)
\* A quiz request with a JSON object whose quiz_category, if any, has an id.
QuizServed ==
  /\ request.op = "play_quiz"
  /\ request.body.kind = "dict"
  /\ request.body.quiz_category.kind # "noid"

PreviousIds == Range(request.body.previous_questions.v)

\* C1: a successful POST /quizzes response never carries a question whose id
\* is in the request's previous_questions, with or without a quiz_category.
C1_NeverPreviousQuestion ==
  (request.op = "play_quiz" /\ response.status = 200)
    => response.question.id \notin PreviousIds

\* A quiz of a stored category answered although one of that category's
\* questions was among the previous ones.
C1_Witness ==
  /\ request.op = "play_quiz"
  /\ response.status = 200
  /\ HasCategory(request.body.quiz_category)
  /\ \E q \in questions :
       /\ q.id \in PreviousIds
       /\ q.category = response.question.category

\* The candidate set of the four-case table: id 0 or "0", or no category,
\* means any category; previous questions are always excluded.
AnyCategory(quiz_category) ==
  \/ quiz_category.kind \in {"none", "empty"}
  \/ quiz_category.id = IntV(0)
  \/ quiz_category.id = StrV(<<"0">>)

TableCandidates(body) ==
  {q \in questions :
     /\ q.id \notin Range(body.previous_questions.v)
     /\ AnyCategory(body.quiz_category)
          \/ q.category = PyStr(body.quiz_category.id)}

\* C2: when the candidate set is empty the handler answers success = true
\* with question = null, never a 500.
C2_EmptyCandidatesSignalled ==
  (QuizServed /\ TableCandidates(request.body) = {})
    => /\ response.status = 200
       /\ response.success
       /\ response.question = NoneV

\* C3: the candidates are those of the four-case table (0 and "0" both mean
\* any category) and the returned question is one of them.
C3_CandidatesFollowTable ==
  QuizServed
    => /\ QuizCandidates(request.body) = TableCandidates(request.body)
       /\ response.status = 200
            => \E q \in TableCandidates(request.body) :
                 response.question = FormatQuestion(q)

(***************************************************************************)
(* Properties of DELETE /questions/<id> and POST /questions                *)
(***************************************************************************)
\* The ids of the questions a successful response carries.
ResultIds(req, resp) ==
  IF resp.status # 200 THEN {}
  ELSE IF req.op \in {"get_questions_for_page", "create_or_search_questions",
                      "get_questions_from_categories"}
       THEN {resp.questions[i].id : i \in 1..Len(resp.questions)}
       ELSE IF req.op = "play_quiz" THEN {resp.question.id} ELSE {}

C4_Step ==
  /\ (Idle /\ request'.op = "delete_question_by_id")
       => IF request'.question_id \in Ids(questions)
          THEN IF request'.raises
               THEN /\ response' = Envelope(422, "unprocessable")
                    /\ questions' = questions
               ELSE /\ response'.status = 200
                    /\ response'.success
                    /\ response'.deleted = request'.question_id
                    /\ questions' =
                         {q \in questions : q.id # request'.question_id}
          ELSE /\ response' = Envelope(404, "resource not found")
               /\ questions' = questions
  /\ \A id \in Ids(questions') \ Ids(questions) :
       /\ request'.op = "create_or_search_questions"
       /\ response'.status = 200
       /\ response'.created = id
  /\ ResultIds(request', response') \subseteq Ids(questions')

\* C4: DELETE of a stored id answers success with deleted = id and removes
\* exactly that question (422 and no change when the store's delete raises);
\* DELETE of an id that is not stored answers 404 and changes nothing; an id
\* that is not stored comes back only as the id of a successful create, and
\* no listing, search or quiz result carries an id that is not stored.
C4_DeleteIsPermanent == [][C4_Step]_vars

\* A second DELETE of an id that was deleted before, answered 404.
C4_Witness ==
  /\ request.op = "delete_question_by_id"
  /\ nDeleted >= 1
  /\ request.question_id < nextId
  /\ request.question_id \notin Ids(questions)
  /\ response.status = 404

FieldNames == <<"question", "answer", "category", "difficulty">>

MandatoryMessages ==
  <<"Question is a mandatory field", "Answer is a mandatory field",
    "Category is a mandatory field", "Difficulty is a mandatory field">>

FailingFields(body) == {i \in 1..4 : ~Truthy(body[FieldNames[i]])}

FirstFailing(body) ==
  CHOOSE i \in FailingFields(body) : \A j \in FailingFields(body) : i <= j

\* No search term, and question, answer, category, difficulty all truthy.
AllFieldsGiven(body) ==
  /\ body.kind = "dict"
  /\ ~Truthy(body.searchTerm)
  /\ FailingFields(body) = {}

\* GET /questions returns the row on one of its pages.
Retrievable(row, rows) ==
  \E p \in 1..(Cardinality(rows) \div QUESTIONS_PER_PAGE + 1) :
    FormatQuestion(row) \in Range(paginate_questions(<<p>>, OrderById(rows)))

C5_Step ==
  (/\ Idle
   /\ request'.op = "create_or_search_questions"
   /\ AllFieldsGiven(request'.body)
   /\ ~request'.raises)
    => /\ response'.status = 200
       /\ response'.success
       /\ response'.created \notin Ids(questions)
       /\ response'.total_questions = Cardinality(questions) + 1
       /\ Cardinality(questions') = Cardinality(questions) + 1
       /\ \E row \in questions' :
            /\ questions' = questions \cup {row}
            /\ row.id = response'.created
            /\ row.question = request'.body.question.v
            /\ row.answer = request'.body.answer.v
            /\ row.category = PyStr(request'.body.category)
            /\ row.difficulty = request'.body.difficulty.v[1]
            /\ Retrievable(row, questions')

\* C5: a POST /questions without search term and with question, answer,
\* category and difficulty all truthy, whose insert the store accepts,
\* inserts exactly one question holding those values, returns its id as
\* created, GET /questions returns the question afterwards, and
\* total_questions is one more than the count reported before.
C5_CreateInsertsOne == [][C5_Step]_vars

\* A question created on the second page of a seeded table.
C5_Witness ==
  /\ request.op = "create_or_search_questions"
  /\ response.status = 200
  /\ AllFieldsGiven(request.body)
  /\ response.created \in Ids(questions)
  /\ response.total_questions > QUESTIONS_PER_PAGE

\* A POST /questions that does not take the search branch.
CreateBranch ==
  /\ request.op = "create_or_search_questions"
  /\ ~(request.body.kind = "dict" /\ Truthy(request.body.searchTerm))

\* C6: in the create branch an absent or empty body is answered 400 "bad
\* request", and a body with a field missing or falsy 400 with the message
\* of the first such field in the order question, answer, category,
\* difficulty.
C6_MandatoryFields ==
  CreateBranch
    => IF request.body.kind # "dict"
       THEN response = Envelope(400, "bad request")
       ELSE FailingFields(request.body) # {}
              => response =
                   Envelope(400, MandatoryMessages[FirstFailing(request.body)])

\* Answer, category and difficulty all fail: the answer is the one named.
C6_Witness ==
  /\ CreateBranch
  /\ request.body.kind = "dict"
  /\ FailingFields(request.body) = {2, 3, 4}
  /\ response.message = "Answer is a mandatory field"

(***************************************************************************)
(* Properties of the listings and of the search                            *)
(***************************************************************************)
\* The 1-based position of a stored question in the id-ascending list.
Rank(q) == Cardinality({o \in questions : o.id < q.id}) + 1

\* C7: when positions (p-1)*10 .. p*10-1 of the id-ascending list of all
\* questions hold at least one question, GET /questions?page=p returns
\* exactly those questions, min(10, remaining) of them, and total_questions
\* is the count of all questions.
C7_PageOfQuestions ==
  request.op = "get_questions_for_page"
    => LET p == PageNumber(request.args)
           n == Cardinality(questions)
           first == (p - 1) * QUESTIONS_PER_PAGE
           last == p * QUESTIONS_PER_PAGE - 1
       IN (\E position \in first..last : position \in 0..(n - 1))
            => /\ response.status = 200
               /\ response.success
               /\ Len(response.questions) = Min2(QUESTIONS_PER_PAGE, n - first)
               /\ \A k \in 1..Len(response.questions) :
                    \E q \in questions :
                      /\ Rank(q) = first + k
                      /\ response.questions[k] = FormatQuestion(q)
               /\ response.total_questions = n

\* The second page of more than ten questions, partly filled.
C7_Witness ==
  /\ request.op = "get_questions_for_page"
  /\ PageNumber(request.args) = 2
  /\ response.status = 200
  /\ Len(response.questions) = Cardinality(questions) - QUESTIONS_PER_PAGE
  /\ Len(response.questions) < QUESTIONS_PER_PAGE

\* term occurs in text as a contiguous, case-sensitive run of characters.
IsSubstring(term, text) ==
  \E i \in 0..(Len(text) - Len(term)) : SubSeq(text, i + 1, i + Len(term)) = term

C8_Step ==
  (/\ Idle
   /\ request'.op = "create_or_search_questions"
   /\ request'.body.kind = "dict"
   /\ Truthy(request'.body.searchTerm))
    => LET matches == {q \in questions :
                         IsSubstring(request'.body.searchTerm.v, q.question)}
       IN /\ questions' = questions
          /\ IF matches = {}
             THEN response' = Envelope(404, "resource not found")
             ELSE /\ response'.status = 200
                  /\ Range(response'.questions) =
                       {FormatQuestion(q) : q \in matches}
                  /\ response'.total_questions = Cardinality(questions)

\* C8: a POST /questions with a non-empty searchTerm returns exactly the
\* questions whose text contains the term as a case-sensitive substring,
\* with total_questions the count of all questions; 404 when none does; and
\* it never inserts, whatever create fields the body also has.
C8_SearchIsSubstring == [][C8_Step]_vars

\* C9: GET /categories/c/questions?page=p selects every question for c = 0
\* and the questions of category c otherwise; it answers 400 exactly when
\* the selection is empty, 404 "No questions in selected page." exactly when
\* the selection is not empty but its slice [(p-1)*10 : p*10) is, and else
\* that slice with total_questions the size of the selection and
\* current_category = c.
C9_QuestionsOfCategory ==
  request.op = "get_questions_from_categories"
    => LET c == request.category_id
           p == PageNumber(request.args)
           selection == {q \in questions : c = 0 \/ q.category = DecimalOf(c)}
           page == PySlice(FormatAll(OrderById(selection)),
                           (p - 1) * QUESTIONS_PER_PAGE, p * QUESTIONS_PER_PAGE)
       IN IF selection = {}
          THEN response = Envelope(400, "bad request")
          ELSE IF page = <<>>
          THEN response = Envelope(404, "No questions in selected page.")
          ELSE /\ response.status = 200
               /\ response.success
               /\ response.questions = page
               /\ response.total_questions = Cardinality(selection)
               /\ response.current_category = c

\* All questions listed through the sentinel 0, on a second page.
C9_Witness ==
  /\ request.op = "get_questions_from_categories"
  /\ request.category_id = 0
  /\ PageNumber(request.args) = 2
  /\ response.status = 200
  /\ response.total_questions = Cardinality(questions)
  /\ \E q \in questions : q.category = <<"1">>
  /\ \E q \in questions : q.category = <<"2">>

(***************************************************************************)
(* The error handlers on every abort                                       *)
(***************************************************************************)
ErrorCodes == {400, 404, 405, 422, 500}

ErrorMessages ==
  {"Question is a mandatory field", "Answer is a mandatory field",
   "Category is a mandatory field", "Difficulty is a mandatory field",
   "No questions in selected page.",
   "Please provide a JSON body with previous question Ids and optional category."}

\* What an abort can carry: the default string, a dict with a message, a
\* dict without one.
Descriptions ==
  {DefaultDescription}
  \cup {[kind |-> "dict", keys |-> k \cup {"message"}, message |-> m] :
          k \in SUBSET {"detail", "code"}, m \in ErrorMessages}
  \cup {[kind |-> "dict", keys |-> k, message |-> ""] :
          k \in SUBSET {"detail", "code"}}

InitErrors ==
  /\ questions = {}
  /\ categories = {}
  /\ nextId = 1
  /\ nCreated = 0
  /\ nDeleted = 0
  /\ nSeeded = 0
  /\ request \in [op : {"abort"}, code : ErrorCodes, description : Descriptions]
  /\ response = [status |-> 0]

\* abort(code, description) reaches the handler registered for the code.
render_abort ==
  /\ request.op = "abort"
  /\ response.status = 0
  /\ response' = Abort(request.code, request.description)
  /\ UNCHANGED <<questions, categories, nextId, nCreated, nDeleted, nSeeded,
               request>>

NextErrors == render_abort

SpecErrors == InitErrors /\ [][NextErrors]_vars

FallbackText(code) ==
  CASE code = 400 -> "bad request"
    [] code = 404 -> "resource not found"
    [] code = 405 -> "method not allowed"
    [] code = 422 -> "unprocessable"
    [] code = 500 -> "internal server error"

C11_PageBeyondLastIs404 ==
  request.op = "get_questions_for_page"
    => LET p == PageNumber(request.args)
           n == Cardinality(questions)
       IN /\ (p >= 1 /\ (p - 1) * QUESTIONS_PER_PAGE >= n)
               => response = Envelope(404, "resource not found")
          /\ response.status = 200 => Len(response.questions) > 0

\* Page 3 of a table that fills less than two pages.
C11_Witness ==
  /\ request.op = "get_questions_for_page"
  /\ PageNumber(request.args) = 3
  /\ Cardinality(questions) > QUESTIONS_PER_PAGE
  /\ response.status = 404

\* The step serves a create that is answered with the new id.
SuccessfulCreate ==
  /\ Idle
  /\ request'.op = "create_or_search_questions"
  /\ response'.status = 200
  /\ "created" \in DOMAIN response'

\* The step serves a delete that is answered with success.
SuccessfulDelete ==
  /\ Idle
  /\ request'.op = "delete_question_by_id"
  /\ response'.status = 200

C12_Step ==
  /\ categories' = categories
  /\ nSeeded' = nSeeded
  /\ nCreated' = (IF SuccessfulCreate THEN nCreated + 1 ELSE nCreated)
  /\ nDeleted' = (IF SuccessfulDelete THEN nDeleted + 1 ELSE nDeleted)
  /\ IF SuccessfulCreate
     THEN \E row \in questions' :
            /\ row.id = response'.created
            /\ row.id \notin Ids(questions)
            /\ questions' = questions \cup {row}
     ELSE IF SuccessfulDelete
     THEN /\ request'.question_id \in Ids(questions)
          /\ questions' = {q \in questions : q.id # request'.question_id}
     ELSE questions' = questions

C12_Count == Cardinality(questions) = nSeeded + nCreated - nDeleted

\* C12: the questions table changes only in a step that serves a successful
\* create (one question with a fresh id is added, the others kept) or a
\* successful delete (exactly the named id is removed); every other request,
\* among them the reads, the search, the quiz and all requests answered with
\* an error, leaves questions and categories as they were; so the stored
\* count is the initial count plus the successful creates minus the
\* successful deletes.
C12_OnlyCreateAndDeleteWrite == [][C12_Step]_vars /\ []C12_Count

\* After one create and one delete, a request answered 400, 404 or 405.
C12_Witness ==
  /\ nCreated >= 1
  /\ nDeleted >= 1
  /\ questions # {}
  /\ response.status \in {400, 404, 405}

====
